---- MODULE Spec2Model ----
(***************************************************************************)
(* The Hungarian method of hungarian_method.c (after Papadimitriou and     *)
(* Steiglitz, Figure 11-2) as a state machine: one call of                 *)
(* hungarian_method( mate, c, n ), from the caller's buffers before the    *)
(* call to the return, together with the brute-force solver the test       *)
(* harness compares it with.                                               *)
(***************************************************************************)
EXTENDS Integers, Sequences, FiniteSets, TLC

\* enum { blank = -1 }
blank == -1

\* <limits.h>, 32-bit int
INT_MAX == 2147483647
INT_MIN == (-INT_MAX) - 1

\* Bounds of the enumerated inputs: every matrix of dimension 0..MaxN with
\* costs 1..MaxCost. Larger dimensions are explored on the named inputs below.
MaxN == 2
MaxCost == 2

VARIABLES
  hm,      \* struct hm_data_; hm.mate and hm.c are the caller's buffers
  c_in,    \* the caller's cost matrix as it was before the call
  s,       \* the stage counter of hungarian_method
  pc,      \* the position of the call
  heap,    \* the working arrays currently allocated
  ret      \* what the call returned: "none" yet, "mate" or "NULL"

vars == <<hm, c_in, s, pc, heap, ret>>

----------------------------------------------------------------------------
\* Index macros V( i_ ), U( j_ ), C( i_, j_ ), EACH_V, EACH_U.

VSet(h) == 0 .. (h.n - 1)
USet(h) == h.n .. (2 * h.n - 1)
U(h, j) == j - h.n
C(h, i, j) == h.c[i * h.n + U(h, j)]

\* The nine working arrays, in the order they are allocated.
Arrays == <<"q", "a", "alpha", "beta", "slack", "nhbor", "count", "exposed", "label">>

----------------------------------------------------------------------------
\* 32-bit int arithmetic on the cost matrix.

\* c[ i * n + j ] *= 2 in a 32-bit int: the product wraps around when it does
\* not fit (two's complement).
Times2(x) ==
  IF x > INT_MAX \div 2 THEN 2 * ((x - INT_MAX) - 1)
  ELSE IF x < INT_MIN \div 2 THEN 2 * ((x + INT_MAX) + 1)
  ELSE 2 * x

\* The product x * 2 does not fit a 32-bit int (signed overflow).
Times2Overflows(x) == x > INT_MAX \div 2 \/ x < INT_MIN \div 2

\* c[ i * n + j ] /= 2: C's division truncates toward zero.
Halve(x) == IF x >= 0 THEN x \div 2 ELSE (x + 1) \div 2

----------------------------------------------------------------------------
\* Sequencing of statements: the state x after a statement is computed once,
\* then F is taken of that value.
Then(x, F(_)) == CHOOSE r \in {F(y) : y \in {x}} : TRUE

\* stack_push: s->data[ s->size++ ] = datum. The stack Q is the sequence of
\* the cells data[ 0 .. size-1 ].
stack_push(h, datum) == [h EXCEPT !.q = Append(h.q, datum)]

\* stack_pop: return s->data[ --s->size ].
stack_top(h) == h.q[Len(h.q)]
stack_pop(h) == [h EXCEPT !.q = SubSeq(h.q, 1, Len(h.q) - 1)]

\* add_arc: the arc list A is the sequence of the cells data[ 0 .. size-1 ].
add_arc(h, x, y) == [h EXCEPT !.a = Append(h.a, [x |-> x, y |-> y])]

\* hm_augment without the final MATE( EXPOSED( v ) ) = v.
RECURSIVE hm_augment_oneway(_, _)
hm_augment_oneway(h, v) ==
  IF h.label[v] # blank
  THEN LET h1 == [h EXCEPT !.exposed[h.label[v]] = h.mate[v]]
           h2 == [h1 EXCEPT !.mate[v] = h1.exposed[v]]
           h3 == [h2 EXCEPT !.mate[h2.exposed[v]] = v]
       IN  Then(h3, LAMBDA g : hm_augment_oneway(g, g.label[v]))
  ELSE [h EXCEPT !.mate[v] = h.exposed[v]]

\* hm_augment: the iterative "procedure augment(v)".
RECURSIVE hm_augment(_, _)
hm_augment(h, v) ==
  IF h.label[v] # blank
  THEN LET h1 == [h EXCEPT !.exposed[h.label[v]] = h.mate[v]]
           h2 == [h1 EXCEPT !.mate[v] = h1.exposed[v]]
           h3 == [h2 EXCEPT !.mate[h2.exposed[v]] = v]
       IN  Then(h3, LAMBDA g : hm_augment(g, g.label[v]))
  ELSE LET h1 == [h EXCEPT !.mate[v] = h.exposed[v]]
       IN  [h1 EXCEPT !.mate[h1.exposed[v]] = v]

\* The inner loop of hm_initialize: beta[j] becomes the least C( i, j ).
RECURSIVE ColumnMin(_, _, _, _)
ColumnMin(h, j, i, b) ==
  IF i >= h.n THEN b
  ELSE ColumnMin(h, j, i + 1, IF C(h, i, j) < b THEN C(h, i, j) ELSE b)

\* hm_initialize: lines 7--8 of Figure 11-2.
hm_initialize(h) ==
  [h EXCEPT !.mate  = [k \in 0 .. (2 * h.n - 1) |-> blank],
            !.alpha = [i \in VSet(h) |-> 0],
            !.beta  = [k \in VSet(h) |-> ColumnMin(h, k + h.n, 0, INT_MAX)]]

\* The inner loop "for EACH_U( j )" of hm_construct_auxiliary_graph, for one i.
RECURSIVE ConstructRow(_, _, _)
ConstructRow(h, i, j) ==
  IF j >= 2 * h.n THEN h
  ELSE IF h.alpha[i] + h.beta[U(h, j)] = C(h, i, j)
       THEN IF h.mate[j] = blank
            THEN Then([h EXCEPT !.exposed[i] = j],
                      LAMBDA g : ConstructRow(g, i, j + 1))
            ELSE IF i # h.mate[j]
                 THEN Then(add_arc(h, i, h.mate[j]),
                           LAMBDA g : ConstructRow(g, i, j + 1))
                 ELSE ConstructRow(h, i, j + 1)
       ELSE ConstructRow(h, i, j + 1)

\* The outer loop "for EACH_V( i )" of hm_construct_auxiliary_graph.
RECURSIVE ConstructLoop(_, _)
ConstructLoop(h, i) ==
  IF i >= h.n THEN h
  ELSE Then(ConstructRow(h, i, h.n), LAMBDA g : ConstructLoop(g, i + 1))

\* hm_construct_auxiliary_graph without COUNT( i ) = 0.
hm_construct_auxiliary_graph_stale_count(h) ==
  ConstructLoop([h EXCEPT !.a       = <<>>,
                          !.exposed = [i \in VSet(h) |-> blank],
                          !.label   = [i \in VSet(h) |-> blank],
                          !.slack   = [k \in VSet(h) |-> INT_MAX],
                          !.nhbor   = [k \in VSet(h) |-> blank]],
                0)

\* hm_construct_auxiliary_graph without LABEL( i ) = blank.
hm_construct_auxiliary_graph_stale_label(h) ==
  ConstructLoop([h EXCEPT !.a       = <<>>,
                          !.exposed = [i \in VSet(h) |-> blank],
                          !.count   = [i \in VSet(h) |-> 0],
                          !.slack   = [k \in VSet(h) |-> INT_MAX],
                          !.nhbor   = [k \in VSet(h) |-> blank]],
                0)

\* hm_construct_auxiliary_graph: lines 12--17 of Figure 11-2.
hm_construct_auxiliary_graph(h) ==
  ConstructLoop([h EXCEPT !.a       = <<>>,
                          !.exposed = [i \in VSet(h) |-> blank],
                          !.label   = [i \in VSet(h) |-> blank],
                          !.count   = [i \in VSet(h) |-> 0],
                          !.slack   = [k \in VSet(h) |-> INT_MAX],
                          !.nhbor   = [k \in VSet(h) |-> blank]],
                0)

\* a - b in a 32-bit int: the difference wraps around when it does not fit
\* (two's complement), as the doubling of the costs does.
Minus32(a, b) ==
  IF b < 0 /\ a > INT_MAX + b THEN ((a - INT_MAX) - 1) - ((b + INT_MAX) + 1)
  ELSE IF b > 0 /\ a < INT_MIN + b THEN ((a + INT_MAX) + 1) - ((b - INT_MAX) - 1)
  ELSE a - b

\* The loop of hm_update_slack over k in U.
RECURSIVE UpdateSlackLoop(_, _, _)
UpdateSlackLoop(h, z, k) ==
  IF k >= 2 * h.n THEN h
  ELSE LET tmp == Minus32(Minus32(C(h, z, k), h.alpha[z]), h.beta[U(h, k)])
       IN  IF 0 <= tmp /\ tmp < h.slack[U(h, k)]
           THEN LET a1 == [h EXCEPT !.slack[U(h, k)] = tmp]
                    a2 == IF a1.nhbor[U(h, k)] # blank
                          THEN [a1 EXCEPT !.count[a1.nhbor[U(h, k)]] = @ - 1]
                          ELSE a1
                    a3 == [a2 EXCEPT !.count[z] = @ + 1]
                IN  Then([a3 EXCEPT !.nhbor[U(h, k)] = z],
                         LAMBDA g : UpdateSlackLoop(g, z, k + 1))
           ELSE UpdateSlackLoop(h, z, k + 1)

\* hm_update_slack: lines 26--27 and 38--39 of Figure 11-2.
hm_update_slack(h, z) == UpdateSlackLoop(h, z, h.n)

\* The loop of hm_pre_search over i in V; r is the function's return value.
RECURSIVE PreSearchLoop(_, _)
PreSearchLoop(h, i) ==
  IF i >= h.n THEN [h |-> h, r |-> TRUE]
  ELSE IF h.mate[i] = blank
       THEN IF h.exposed[i] # blank
            THEN [h |-> hm_augment(h, i), r |-> FALSE]
            ELSE Then(hm_update_slack([stack_push(h, i) EXCEPT !.label[i] = blank], i),
                      LAMBDA g : PreSearchLoop(g, i + 1))
       ELSE PreSearchLoop(h, i + 1)

\* hm_pre_search returning false at once, without a search and without
\* hm_augment.
hm_pre_search_idle(h) == [h |-> [h EXCEPT !.q = <<>>], r |-> FALSE]

\* hm_pre_search: lines 19--28 of Figure 11-2.
hm_pre_search(h) == PreSearchLoop([h EXCEPT !.q = <<>>], 0)

\* The inner loop of hm_search over the arcs A.data[ z ] leaving the popped i.
RECURSIVE SearchArcs(_, _, _)
SearchArcs(h, i, z) ==
  IF z > Len(h.a) THEN [h |-> h, r |-> TRUE]
  ELSE IF h.a[z].x = i
       THEN LET j == h.a[z].y
            IN  IF h.label[j] = blank
                THEN LET h1 == [h EXCEPT !.label[j] = i]
                     IN  IF h1.exposed[j] # blank
                         THEN [h |-> hm_augment(h1, j), r |-> FALSE]
                         ELSE Then(hm_update_slack(stack_push(h1, j), j),
                                   LAMBDA g : SearchArcs(g, i, z + 1))
                ELSE SearchArcs(h, i, z + 1)
       ELSE SearchArcs(h, i, z + 1)

\* One iteration of the loop "while ( Q.size != 0 )" of hm_search: pop i and
\* follow its arcs. r = FALSE is "return false" (goto endstage).
hm_search_iteration(h) ==
  Then(stack_pop(h), LAMBDA g : SearchArcs(g, stack_top(h), 1))

\* hm_modify, "Determine theta_one": the least positive slack.
RECURSIVE ThetaLoop(_, _, _)
ThetaLoop(h, j, theta) ==
  IF j >= 2 * h.n THEN theta
  ELSE ThetaLoop(h, j + 1,
                 IF 0 < h.slack[U(h, j)] /\ h.slack[U(h, j)] < theta
                 THEN h.slack[U(h, j)] ELSE theta)

theta_one(h) == ThetaLoop(h, h.n, INT_MAX) \div 2

\* hm_modify, "Update the dual variable alpha".
ModifyAlpha(h, theta) ==
  [h EXCEPT !.alpha = [i \in VSet(h) |->
      IF h.label[i] # blank \/ h.count[i] > 0
      THEN h.alpha[i] + theta ELSE h.alpha[i] - theta]]

\* The beta update without the test of slack[]: every beta is lowered.
ModifyBeta_unconditional(h, theta) ==
  [h EXCEPT !.beta = [k \in VSet(h) |-> Minus32(h.beta[k], theta)]]

\* hm_modify, "Update the dual variable beta".
ModifyBeta(h, theta) ==
  [h EXCEPT !.beta = [k \in VSet(h) |->
      IF h.slack[k] = 0 THEN h.beta[k] - theta ELSE h.beta[k] + theta]]

\* hm_modify, "Update slack and check for new admissible edges".
RECURSIVE ModifySlackLoop(_, _, _)
ModifySlackLoop(h, theta, j) ==
  IF j >= 2 * h.n THEN [h |-> h, r |-> TRUE]
  ELSE IF h.slack[U(h, j)] > 0
       THEN LET h1 == [h EXCEPT !.slack[U(h, j)] = @ - 2 * theta]
            IN  IF h1.slack[U(h, j)] = 0
                THEN IF h1.mate[j] = blank
                     THEN LET h2 == [h1 EXCEPT !.exposed[h1.nhbor[U(h, j)]] = j]
                          IN  [h |-> hm_augment(h2, h2.nhbor[U(h, j)]), r |-> FALSE]
                     ELSE Then(add_arc(stack_push(h1, h1.nhbor[U(h, j)]),
                                       h1.nhbor[U(h, j)], h1.mate[j]),
                               LAMBDA g : ModifySlackLoop(g, theta, j + 1))
                ELSE Then(h1, LAMBDA g : ModifySlackLoop(g, theta, j + 1))
       ELSE ModifySlackLoop(h, theta, j + 1)

\* hm_modify: "procedure modify" of Figure 11-2.
hm_modify(h) ==
  Then(theta_one(h), LAMBDA theta :
    Then(ModifyBeta(ModifyAlpha(h, theta), theta), LAMBDA g :
      ModifySlackLoop(g, theta, g.n)))

----------------------------------------------------------------------------
\* The brute-force solver and the harness's cost function.

\* perm_lex_successor, the loop "while ( i >= 0 && pi[ i ] > pi[ i + 1 ] )".
RECURSIVE SuccessorPivot(_, _)
SuccessorPivot(pi, i) ==
  IF i >= 0 /\ pi[i] > pi[i + 1] THEN SuccessorPivot(pi, i - 1) ELSE i

\* perm_lex_successor, the loop "while ( pi[ j ] < pi[ i ] )".
RECURSIVE SuccessorSwap(_, _, _)
SuccessorSwap(pi, i, j) ==
  IF pi[j] < pi[i] THEN SuccessorSwap(pi, i, j - 1) ELSE j

\* perm_lex_successor: the lexicographic successor of pi; ok = FALSE is the
\* NULL returned after the last permutation.
perm_lex_successor(n, pi) ==
  LET i == SuccessorPivot(pi, n - 2)
  IN  IF i < 0 THEN [ok |-> FALSE, pi |-> pi]
      ELSE LET j   == SuccessorSwap(pi, i, n - 1)
               sw  == [pi EXCEPT ![i] = pi[j], ![j] = pi[i]]
               rho == sw
           IN  [ok |-> TRUE,
                pi |-> [k \in 0 .. (n - 1) |->
                          IF k >= i + 1 THEN rho[(n + i) - k] ELSE sw[k]]]

\* current_cost: the sum of c[ i * n + current_perm[ i ] ] over i.
RECURSIVE PermCost(_, _, _, _)
PermCost(cm, n, pi, i) ==
  IF i >= n THEN 0 ELSE cm[i * n + pi[i]] + PermCost(cm, n, pi, i + 1)

\* One pass through the body of brute_force_assignment's do-while loop:
\* current_perm is costed, kept if it is cheaper than the best so far, and
\* replaced by its successor; more = FALSE once the successor was NULL.
BruteForceStep(cm, n, st) ==
  IF ~st.more THEN st
  ELSE LET current_cost == PermCost(cm, n, st.current_perm, 0)
           better       == current_cost < st.best_cost
           next         == perm_lex_successor(n, st.current_perm)
       IN  [current_perm |-> next.pi,
            best_cost    |-> IF better THEN current_cost ELSE st.best_cost,
            best_perm    |-> IF better THEN st.current_perm ELSE st.best_perm,
            more         |-> next.ok]

\* k passes through the do-while loop, taken half by half.
RECURSIVE BruteForceLoop(_, _, _, _)
BruteForceLoop(cm, n, st, k) ==
  IF k = 0 THEN st
  ELSE IF k = 1 THEN Then(st, LAMBDA z : BruteForceStep(cm, n, z))
  ELSE Then(BruteForceLoop(cm, n, st, k \div 2),
            LAMBDA z : BruteForceLoop(cm, n, z, k - (k \div 2)))

\* n!, the number of permutations the loop visits before the successor is NULL.
RECURSIVE Factorial(_)
Factorial(n) == IF n <= 1 THEN 1 ELSE n * Factorial(n - 1)

\* brute_force_assignment: the mate array of the cheapest permutation.
brute_force_assignment(cm, n) ==
  LET first == [i \in 0 .. (n - 1) |-> i]
      done  == BruteForceLoop(cm, n,
                 [current_perm |-> first, best_cost |-> INT_MAX,
                  best_perm |-> first, more |-> TRUE],
                 Factorial(n))
  IN  [k \in 0 .. (2 * n - 1) |->
         IF k < n THEN n + done.best_perm[k]
         ELSE CHOOSE v \in 0 .. (n - 1) : done.best_perm[v] = k - n]

\* compute_cost of hm_test.cc: the sum of c[ i * n + mate[ i ] - n ] over i.
RECURSIVE CostLoop(_, _, _, _)
CostLoop(m, cm, n, i) ==
  IF i >= n THEN 0 ELSE cm[(i * n + m[i]) - n] + CostLoop(m, cm, n, i + 1)

compute_cost(m, cm, n) == CostLoop(m, cm, n, 0)

----------------------------------------------------------------------------
\* The inputs explored.

\* Example 11.1 of Papadimitriou and Steiglitz, the matrix of hm_test.cc.
Example11_1 ==
  [n |-> 5, c |-> <<7, 2, 1, 9, 4,
                    9, 6, 9, 5, 5,
                    3, 8, 3, 1, 8,
                    7, 9, 4, 2, 2,
                    8, 4, 7, 4, 8>>]

\* A 4 x 4 matrix with tied column minima.
TiedInput ==
  [n |-> 4, c |-> <<1, 1, 1, 3,
                    2, 2, 2, 1,
                    5, 4, 4, 1,
                    4, 3, 5, 1>>]

\* A 5 x 5 matrix on which several slacks reach zero in one hm_modify pass.
DeepStackInput ==
  [n |-> 5, c |-> <<3, 2, 3, 3, 3,
                    2, 2, 2, 1, 1,
                    3, 3, 2, 3, 2,
                    3, 2, 1, 3, 3,
                    2, 3, 3, 3, 3>>]

\* A 6 x 6 matrix of the same kind.
DeepStackInput6 ==
  [n |-> 6, c |-> <<1, 1, 3, 2, 3, 1,
                    2, 1, 2, 2, 3, 2,
                    1, 3, 3, 3, 1, 2,
                    2, 2, 3, 3, 3, 1,
                    2, 2, 3, 3, 2, 2,
                    1, 2, 1, 1, 2, 3>>]

\* A 1 x 1 matrix whose cost does not fit a 32-bit int once doubled.
HugeCostInput == [n |-> 1, c |-> <<(INT_MAX \div 2) + 1>>]

\* 2 x 2 matrices with costs that do not fit once doubled: one cost, and the
\* whole first row.
HugeCornerInput == [n |-> 2, c |-> <<(INT_MAX \div 2) + 1, 1, 1, 1>>]
HugeRowInput == [n |-> 2, c |-> <<(INT_MAX \div 2) + 1, (INT_MAX \div 2) + 1, 1, 1>>]

\* A 4 x 4 matrix on which hm_augment walks along three labels, through every
\* vertex of V.
LongWalkInput == [n |-> 4, c |-> <<2, 2, 1, 1,
                                   2, 2, 2, 1,
                                   2, 1, 1, 1,
                                   1, 1, 1, 1>>]

NamedInputs ==
  {Example11_1, TiedInput, DeepStackInput, DeepStackInput6, LongWalkInput,
   HugeCostInput, HugeCornerInput, HugeRowInput}

\* A row-major matrix given as a sequence, as the array c[ 0 .. n*n-1 ].
AsArray(sq) == [k \in 0 .. (Len(sq) - 1) |-> sq[k + 1]]

\* What an uninitialized int may hold.
JunkValues == {blank, 0, 1}

\* The caller's buffers and the (not yet allocated) working memory, every
\* cell holding junk g.
Fresh(n, cm, g) ==
  [n |-> n, c |-> cm,
   mate    |-> [k \in 0 .. (2 * n - 1) |-> g],
   q       |-> IF g > 0 THEN <<g>> ELSE <<>>,
   a       |-> IF g > 0 THEN <<[x |-> g, y |-> g]>> ELSE <<>>,
   alpha   |-> [i \in 0 .. (n - 1) |-> g],
   beta    |-> [i \in 0 .. (n - 1) |-> g],
   slack   |-> [i \in 0 .. (n - 1) |-> g],
   nhbor   |-> [i \in 0 .. (n - 1) |-> g],
   count   |-> [i \in 0 .. (n - 1) |-> g],
   exposed |-> [i \in 0 .. (n - 1) |-> g],
   label   |-> [i \in 0 .. (n - 1) |-> g]]

Init ==
  /\ \E g \in JunkValues :
       \/ \E n \in 0 .. MaxN : \E cm \in [0 .. (n * n - 1) -> 1 .. MaxCost] :
            /\ hm = Fresh(n, cm, g)
            /\ c_in = cm
       \/ \E in \in NamedInputs :
            /\ hm = Fresh(in.n, AsArray(in.c), g)
            /\ c_in = AsArray(in.c)
  /\ s = 0
  /\ pc = "call"
  /\ heap = {}
  /\ ret = "none"

----------------------------------------------------------------------------
\* Working memory.

\* hm_data_internal_free: every array whose pointer is not NULL is freed.
hm_data_internal_free(hp) == hp \ {Arrays[i] : i \in 1 .. Len(Arrays)}

\* hm_data_internal_allocate returning NULL without hm_data_internal_free.
hm_data_internal_allocate_leak(hp, fail) ==
  LET obtained == {Arrays[i] : i \in 1 .. (IF fail = 0 THEN Len(Arrays) ELSE fail - 1)}
  IN  [heap |-> hp \cup obtained, ok |-> fail = 0]

\* hm_data_internal_allocate: the chain of nine malloc calls joined by &&.
\* fail = 0: every malloc returns memory; fail = k > 0: the k-th is the first
\* to return NULL, the later ones are not attempted.
hm_data_internal_allocate(hp, fail) ==
  LET obtained == {Arrays[i] : i \in 1 .. (IF fail = 0 THEN Len(Arrays) ELSE fail - 1)}
  IN  IF fail = 0
      THEN [heap |-> hp \cup obtained, ok |-> TRUE]
      ELSE [heap |-> hm_data_internal_free(hp \cup obtained), ok |-> FALSE]

----------------------------------------------------------------------------
\* The steps of hungarian_method.

\* "for ( s = 1; s <= n; ++s )": where the call goes with stage counter k.
StageOrEnd(k) == IF k <= hm.n THEN "construct" ELSE "halve"

\* if ( !hm_data_internal_allocate( &hm, n ) ) return NULL;
Allocate ==
  /\ pc = "call"
  /\ \E fail \in 0 .. Len(Arrays) :
       LET res == hm_data_internal_allocate(heap, fail)
       IN  /\ heap' = res.heap
           /\ pc' = IF res.ok THEN "double" ELSE "failed"
           /\ ret' = IF res.ok THEN ret ELSE "NULL"
  /\ UNCHANGED <<hm, c_in, s>>

\* "Double each cost to ensure integrality of the alphabeta algorithm."
DoubledCosts(h) == [h EXCEPT !.c = [k \in DOMAIN h.c |-> Times2(h.c[k])]]

\* Signed overflow of c[ i * n + j ] *= 2 is undefined: the product wraps
\* around, or the program is stopped (a trapping build).
DoubleCosts ==
  /\ pc = "double"
  /\ \/ /\ hm' = DoubledCosts(hm)
        /\ pc' = "init"
     \/ /\ \E k \in DOMAIN hm.c : Times2Overflows(hm.c[k])
        /\ pc' = "aborted"
        /\ hm' = hm
  /\ UNCHANGED <<c_in, s, heap, ret>>

\* hm_initialize( &hm ); hm.q.size = 0; hm.a.size = 0; s = 1
Initialize ==
  /\ pc = "init"
  /\ hm' = [hm_initialize(hm) EXCEPT !.q = <<>>, !.a = <<>>]
  /\ s' = 1
  /\ pc' = StageOrEnd(1)
  /\ UNCHANGED <<c_in, heap, ret>>

\* hm_construct_auxiliary_graph( &hm ), the first statement of a stage
ConstructAuxiliaryGraph ==
  /\ pc = "construct"
  /\ hm' = hm_construct_auxiliary_graph(hm)
  /\ pc' = "pre_search"
  /\ UNCHANGED <<c_in, s, heap, ret>>

\* if ( hm_pre_search( &hm ) ) ...
PreSearch ==
  /\ pc = "pre_search"
  /\ LET res == hm_pre_search(hm)
     IN  /\ hm' = res.h
         /\ pc' = IF res.r THEN "search" ELSE StageOrEnd(s + 1)
         /\ s' = IF res.r THEN s ELSE s + 1
  /\ UNCHANGED <<c_in, heap, ret>>

\* One iteration of hm_search's loop. A stack_push at Q.size >= n stores
\* outside the n ints allocated for Q.data, which is undefined: the store is
\* absorbed by the allocator's padding, or the program is stopped (a
\* bounds-checking build stops at the store, the C library aborts in free()
\* once its bookkeeping was overwritten).
SearchIteration ==
  /\ pc = "search"
  /\ Len(hm.q) # 0
  /\ LET res == hm_search_iteration(hm)
     IN  \/ /\ hm' = res.h
            /\ pc' = IF res.r THEN "search" ELSE StageOrEnd(s + 1)
            /\ s' = IF res.r THEN s ELSE s + 1
         \/ /\ Len(res.h.q) > hm.n
            /\ hm' = res.h
            /\ pc' = "aborted"
            /\ s' = s
  /\ UNCHANGED <<c_in, heap, ret>>

\* hm_search found Q empty and returned true: hm_modify( &hm )
Modify ==
  /\ pc = "search"
  /\ Len(hm.q) = 0
  /\ LET res == hm_modify(hm)
     IN  /\ hm' = res.h
         /\ pc' = IF res.r THEN "search" ELSE StageOrEnd(s + 1)
         /\ s' = IF res.r THEN s ELSE s + 1
  /\ UNCHANGED <<c_in, heap, ret>>

\* "Reset (halve) each cost and clean up."
HalvedCosts(h) == [h EXCEPT !.c = [k \in DOMAIN h.c |-> Halve(h.c[k])]]

Finish ==
  /\ pc = "halve"
  /\ hm' = HalvedCosts(hm)
  /\ heap' = hm_data_internal_free(heap)
  /\ ret' = "mate"
  /\ pc' = "returned"
  /\ UNCHANGED <<c_in, s>>

Next ==
  \/ Allocate
  \/ DoubleCosts
  \/ Initialize
  \/ ConstructAuxiliaryGraph
  \/ PreSearch
  \/ SearchIteration
  \/ Modify
  \/ Finish

Spec == Init /\ [][Next]_vars

\* The calls whose costs can all be doubled within a 32-bit int.
FairInit == Init /\ \A k \in DOMAIN c_in : ~Times2Overflows(c_in[k])

\* The program is not stopped from outside: a step that can be taken is taken.
FairSpec == FairInit /\ [][Next]_vars /\ WF_vars(Next)

----------------------------------------------------------------------------
\* The call as one function of the buffers it is given.

\* hm_search: the loop "while ( Q.size != 0 )".
RECURSIVE hm_search(_)
hm_search(h) ==
  IF Len(h.q) = 0 THEN [h |-> h, r |-> TRUE]
  ELSE LET res == hm_search_iteration(h)
       IN  IF res.r THEN hm_search(res.h) ELSE res

\* while( hm_search( &hm ) && hm_modify( &hm ) );
RECURSIVE SearchModifyLoop(_)
SearchModifyLoop(h) ==
  LET sr == hm_search(h)
  IN  IF sr.r
      THEN LET mr == hm_modify(sr.h)
           IN  IF mr.r THEN SearchModifyLoop(mr.h) ELSE mr.h
      ELSE sr.h

\* for ( s = 1; s <= n; ++s ) { ... }
RECURSIVE StageLoop(_, _)
StageLoop(h, k) ==
  IF k > h.n THEN h
  ELSE LET pr == hm_pre_search(hm_construct_auxiliary_graph(h))
       IN  StageLoop(IF pr.r THEN SearchModifyLoop(pr.h) ELSE pr.h, k + 1)

\* hungarian_method after a successful allocation, out-of-range stores absorbed.
hungarian_method(h) ==
  HalvedCosts(StageLoop([hm_initialize(DoubledCosts(h)) EXCEPT !.q = <<>>, !.a = <<>>], 1))

----------------------------------------------------------------------------
\* Properties.

\* mate pairs every v in V with a u in U and back, and covers U.
PerfectMatching(h) ==
  /\ \A v \in VSet(h) : h.mate[v] \in USet(h) /\ h.mate[h.mate[v]] = v
  /\ {h.mate[v] : v \in VSet(h)} = USet(h)

\* C1: when hungarian_method has returned, the total cost of its matching
\* equals the total cost of the matching of brute_force_assignment, the
\* minimum over all permutations.
Optimality ==
  pc = "returned" =>
    /\ PerfectMatching(hm)
    /\ compute_cost(hm.mate, c_in, hm.n)
         = compute_cost(brute_force_assignment(c_in, hm.n), c_in, hm.n)

\* C2: when hungarian_method has returned successfully, every v in V has a
\* mate in U whose mate is v again, and the mates of V are exactly U.
MatchingValidity == pc = "returned" => PerfectMatching(hm)

MatchingValidityWitness ==
  pc = "returned" /\ hm.n >= 3 /\ Len(hm.a) > 0

\* C3: after a successful call every entry of the caller's cost matrix equals
\* its value before the call.
CostMatrixInvariance == pc = "returned" => hm.c = c_in

\* C4: every call of hungarian_method eventually returns (or reports the
\* allocation failure).
Termination == <>(pc \in {"returned", "failed"})

\* C5: when an allocation fails the call returns NULL before any stage, the
\* caller's cost matrix and mate buffer are as they were before the call, and
\* no working array is left allocated.
AllocationFailureAtomic ==
  pc = "failed" =>
    /\ ret = "NULL"
    /\ s = 0
    /\ heap = {}
    /\ \E g \in JunkValues : hm = Fresh(hm.n, c_in, g)

AllocationFailureWitness == pc = "failed" /\ hm.n >= 2

\* C6: on Example 11.1 (n = 5) hungarian_method returns a perfect matching of
\* total cost 15, the total cost of the brute-force matching.
ExampleScenario ==
  (pc = "returned" /\ hm.n = Example11_1.n /\ c_in = AsArray(Example11_1.c)) =>
    /\ PerfectMatching(hm)
    /\ compute_cost(hm.mate, c_in, hm.n) = 15
    /\ compute_cost(brute_force_assignment(c_in, hm.n), c_in, hm.n) = 15

ExampleScenarioWitness ==
  pc = "returned" /\ hm.n = Example11_1.n /\ c_in = AsArray(Example11_1.c)

\* C7: a call with n = 0 ends with the success indicator, having run no stage
\* and written nothing, whatever the zero-sized malloc calls return.
ZeroSizeSucceeds ==
  (hm.n = 0 /\ pc \in {"returned", "failed", "aborted"}) =>
    /\ ret = "mate"
    /\ hm.mate = <<>>
    /\ hm.c = c_in

\* C8: the mate array returned depends on the cost matrix and n only, not on
\* what the mate buffer and the working arrays held before the call.
Determinism ==
  pc = "returned" =>
    \A g \in JunkValues : hm.mate = hungarian_method(Fresh(hm.n, c_in, g)).mate

DeterminismWitness ==
  pc = "returned" /\ hm.n >= 3 /\ \E v \in VSet(hm) : hm.mate[v] # v + hm.n

\* C9: once Q.size is set, the stack Q never holds more than the n ints
\* allocated for Q.data.
StackWithinCapacity ==
  pc \in {"construct", "pre_search", "search", "halve", "returned"} =>
    Len(hm.q) <= hm.n

\* C10: at the start of every stage and when the last stage has ended, every
\* matched pair ( v, mate[v] ) is an equality edge of the doubled costs.
ComplementarySlackness ==
  pc \in {"construct", "halve"} =>
    \A v \in VSet(hm) :
      hm.mate[v] # blank =>
        hm.alpha[v] + hm.beta[U(hm, hm.mate[v])] = C(hm, v, hm.mate[v])

\* hm_modify is about to run: hm_search found Q empty and returned true.
AtModify == pc = "search" /\ Len(hm.q) = 0

\* The V-vertices pushed on Q in the current stage, at the time hm_modify
\* runs: hm_pre_search has pushed every unmatched i (it returned true, so none
\* had an exposed entry), hm_search has pushed every j it labeled, and
\* hm_modify pushes NHBOR( j ), a vertex hm_update_slack was called for, that
\* is one pushed before.
Pushed(h) == {v \in VSet(h) : h.mate[v] = blank \/ h.label[v] # blank}

\* C11: whenever hm_modify runs, its test "LABEL( i ) != blank || COUNT( i )
\* > 0" is true for exactly the V-vertices pushed in the current stage, so
\* alpha is raised by theta_one for those and lowered for the others.
AlphaUpdateFollowsSearch ==
  AtModify =>
    LET theta == theta_one(hm)
        after == ModifyAlpha(hm, theta)
    IN  \A v \in VSet(hm) :
          /\ (hm.label[v] # blank \/ hm.count[v] > 0) <=> v \in Pushed(hm)
          /\ after.alpha[v] = IF v \in Pushed(hm)
                              THEN hm.alpha[v] + theta
                              ELSE hm.alpha[v] - theta

\* alpha[v] + beta[u] <= C[v][u] for every v in V and u in U.
DualFeasible(h) ==
  \A v \in VSet(h) : \A u \in USet(h) : h.alpha[v] + h.beta[U(h, u)] <= C(h, v, u)

\* C12: after hm_initialize, after every hm_modify and at every stage
\* boundary the duals are feasible on the doubled costs, so every tmp that
\* hm_update_slack computes from them is >= 0.
DualFeasibility ==
  pc \in {"construct", "pre_search", "search", "halve"} =>
    /\ DualFeasible(hm)
    /\ \A z \in VSet(hm) : \A k \in USet(hm) :
         Minus32(Minus32(C(hm, z, k), hm.alpha[z]), hm.beta[U(hm, k)]) >= 0

\* The matched vertices of V and of U.
MatchedV(h) == {v \in VSet(h) : h.mate[v] # blank}
MatchedU(h) == {u \in USet(h) : h.mate[u] # blank}

\* The stages are under way: mate[] has been initialized.
InStages == pc \in {"construct", "pre_search", "search", "halve"}

\* C13, at the stage boundaries: before stage s, and after stage n, exactly
\* s - 1 vertices of V and s - 1 of U are matched, and mate is symmetric.
StageBoundary ==
  pc \in {"construct", "halve"} =>
    /\ Cardinality(MatchedV(hm)) = s - 1
    /\ Cardinality(MatchedU(hm)) = s - 1
    /\ \A v \in MatchedV(hm) : hm.mate[v] \in USet(hm) /\ hm.mate[hm.mate[v]] = v
    /\ \A u \in MatchedU(hm) : hm.mate[u] \in VSet(hm) /\ hm.mate[hm.mate[u]] = u

\* C13, in every step of the stages: no matched vertex becomes unmatched.
StaysMatched ==
  InStages =>
    \A k \in DOMAIN hm.mate : hm.mate[k] # blank => hm'.mate[k] # blank

\* C13: each stage grows the matching by exactly one edge.
StageGrowth == [](StageBoundary) /\ [][StaysMatched]_vars

StageGrowthWitness == pc = "halve" /\ hm.n >= 3 /\ s = hm.n + 1 /\ Len(hm.a) > 0

\* The least positive slack, theta_one before "theta_one /= 2".
MinPositiveSlack(h) == ThetaLoop(h, h.n, INT_MAX)

\* C14: whenever hm_modify runs, some slack is positive and below INT_MAX,
\* the least positive slack is even, and subtracting 2 * theta_one from the
\* positive slacks leaves none negative and makes at least one of them 0.
ThetaExact ==
  AtModify =>
    LET least == MinPositiveSlack(hm)
        theta == theta_one(hm)
    IN  /\ least < INT_MAX
        /\ least % 2 = 0
        /\ 2 * theta = least
        /\ \A k \in VSet(hm) : hm.slack[k] > 0 => hm.slack[k] - 2 * theta >= 0
        /\ \E k \in VSet(hm) : hm.slack[k] > 0 /\ hm.slack[k] - 2 * theta = 0

\* The calls of hm_augment. A call site is the state h in which hm_augment is
\* called and its argument v; called = FALSE when the function returns
\* without calling it.
NoCall(h) == [called |-> FALSE, h |-> h, v |-> blank]

\* The call of hm_augment in hm_pre_search: the loop up to the first
\* unmatched i with an exposed entry.
RECURSIVE PreSearchCall(_, _)
PreSearchCall(h, i) ==
  IF i >= h.n THEN NoCall(h)
  ELSE IF h.mate[i] = blank
       THEN IF h.exposed[i] # blank
            THEN [called |-> TRUE, h |-> h, v |-> i]
            ELSE Then(hm_update_slack([stack_push(h, i) EXCEPT !.label[i] = blank], i),
                      LAMBDA g : PreSearchCall(g, i + 1))
       ELSE PreSearchCall(h, i + 1)

\* The call of hm_augment in one iteration of hm_search: the arcs of the
\* popped i up to the first newly labeled j with an exposed entry.
RECURSIVE SearchArcsCall(_, _, _)
SearchArcsCall(h, i, z) ==
  IF z > Len(h.a) THEN NoCall(h)
  ELSE IF h.a[z].x = i /\ h.label[h.a[z].y] = blank
       THEN LET j == h.a[z].y
                h1 == [h EXCEPT !.label[j] = i]
            IN  IF h1.exposed[j] # blank
                THEN [called |-> TRUE, h |-> h1, v |-> j]
                ELSE Then(hm_update_slack(stack_push(h1, j), j),
                          LAMBDA g : SearchArcsCall(g, i, z + 1))
       ELSE SearchArcsCall(h, i, z + 1)

\* The call of hm_augment in hm_modify: the slack loop up to the first
\* unmatched j whose slack has become 0. EXPOSED( NHBOR( j ) ) = j is part of
\* the call site, NHBOR( j ) is the argument.
RECURSIVE ModifySlackCall(_, _, _)
ModifySlackCall(h, theta, j) ==
  IF j >= 2 * h.n THEN NoCall(h)
  ELSE IF h.slack[U(h, j)] > 0
       THEN LET h1 == [h EXCEPT !.slack[U(h, j)] = @ - 2 * theta]
            IN  IF h1.slack[U(h, j)] = 0
                THEN IF h1.mate[j] = blank
                     THEN [called |-> TRUE,
                           h |-> IF h1.nhbor[U(h, j)] \in VSet(h)
                                 THEN [h1 EXCEPT !.exposed[h1.nhbor[U(h, j)]] = j]
                                 ELSE h1,
                           v |-> h1.nhbor[U(h, j)]]
                     ELSE Then(add_arc(stack_push(h1, h1.nhbor[U(h, j)]),
                                       h1.nhbor[U(h, j)], h1.mate[j]),
                               LAMBDA g : ModifySlackCall(g, theta, j + 1))
                ELSE Then(h1, LAMBDA g : ModifySlackCall(g, theta, j + 1))
       ELSE ModifySlackCall(h, theta, j + 1)

\* The call of hm_augment that the next step of the stage makes, if any.
AugmentCall ==
  IF pc = "pre_search" THEN PreSearchCall([hm EXCEPT !.q = <<>>], 0)
  ELSE IF pc = "search" /\ Len(hm.q) # 0
       THEN SearchArcsCall(stack_pop(hm), stack_top(hm), 1)
  ELSE IF pc = "search"
       THEN LET theta == theta_one(hm)
                g == ModifyBeta(ModifyAlpha(hm, theta), theta)
            IN  ModifySlackCall(g, theta, g.n)
  ELSE NoCall(hm)

\* One pass of the loop of hm_augment at v, LABEL( v ) != blank.
AugmentStep(h, v) ==
  LET h1 == [h EXCEPT !.exposed[h.label[v]] = h.mate[v]]
      h2 == [h1 EXCEPT !.mate[v] = h1.exposed[v]]
  IN  [h2 EXCEPT !.mate[h2.exposed[v]] = v]

\* The walk of hm_augment( v ) in h, the vertices in seen visited before: v
\* is a vertex of V not visited before and its exposed entry is a vertex of
\* U; with a blank label v is unmatched and the walk ends, otherwise v is
\* matched, its label is a vertex of V and the walk goes on from there.
RECURSIVE WalkSafe(_, _, _)
WalkSafe(h, v, seen) ==
  /\ v \in VSet(h) \ seen
  /\ h.exposed[v] \in USet(h)
  /\ IF h.label[v] = blank
     THEN h.mate[v] = blank
     ELSE /\ h.mate[v] \in USet(h)
          /\ h.label[v] \in VSet(h)
          /\ WalkSafe(AugmentStep(h, v), h.label[v], seen \cup {v})

\* C15: whenever hm_augment( v ) is called, from hm_pre_search, hm_search or
\* hm_modify, the walk along label[] visits no vertex twice and ends at an
\* unmatched vertex of V with a blank label, every other vertex on it is
\* matched, and every vertex has an exposed entry when it is re-paired, so
\* that no index into mate[] or exposed[] is blank.
AugmentWalkSafe ==
  LET call == AugmentCall
  IN  call.called => WalkSafe(call.h, call.v, {})

AugmentWalkSafeWitness ==
  LET call == AugmentCall
  IN  /\ call.called
      /\ pc = "search"
      /\ hm.n >= 3
      /\ call.h.label[call.v] # blank
      /\ call.h.label[call.h.label[call.v]] # blank
      /\ call.h.label[call.h.label[call.h.label[call.v]]] # blank
      /\ WalkSafe(call.h, call.v, {})

====
